---- MODULE Spec2Model ----
(***************************************************************************)
(* The resilient request-execution core of the Mixpost client:            *)
(* ErrorHandler (error enhancement, retry with backoff) wrapped in        *)
(* CircuitBreaker, as composed by ErrorHandler.executeWithRetry.          *)
(*                                                                         *)
(* Several executeWithRetry calls may be in flight on one ErrorHandler.    *)
(* Each call is a chain of continuations separated by its await points     *)
(* (the operation's promise and the backoff timer). When retryOperation    *)
(* settles, CircuitBreaker.execute resumes in the same drain of the         *)
(* microtask queue and retryOperation touches no shared state, so the       *)
(* settling of an attempt and the breaker's bookkeeping are one action.     *)
(***************************************************************************)
EXTENDS Integers, Sequences, FiniteSets, Bags, TLC

\* ------------------------------------------------------------- bounds
\* Number of calls that can be in flight at once.
MaxInFlight == 2
\* Number of executeWithRetry calls made in one behaviour.
MaxCalls == 4
\* Last instant of the clock read by Date.now().
MaxTime == 2
\* Largest maxRetries a policy is built with.
MaxMaxRetries == 2
\* Largest failureThreshold a breaker is built with.
MaxThreshold == 2
\* Largest resetTimeout a breaker is built with.
MaxResetTimeout == 2
\* Largest baseDelay and maxDelay a policy is built with, in milliseconds.
MaxBaseDelay == 3
MaxMaxDelay == 4
\* Largest maxRetries of a policy whose backoff delays are computed.
MaxBackoffRetries == 5
\* Number of values Math.random() takes: k / JitterSteps for k in 0..JitterSteps-1.
JitterSteps == 4

\* ------------------------------------------------------------- values
\* An absent number / an absent string of a JavaScript object.
NoNum == -1
NoStr == "undefined"

BAD_REQUEST == "BAD_REQUEST"
UNAUTHORIZED == "UNAUTHORIZED"
FORBIDDEN == "FORBIDDEN"
NOT_FOUND == "NOT_FOUND"
METHOD_NOT_ALLOWED == "METHOD_NOT_ALLOWED"
CONFLICT == "CONFLICT"
UNPROCESSABLE_ENTITY == "UNPROCESSABLE_ENTITY"
TOO_MANY_REQUESTS == "TOO_MANY_REQUESTS"
INTERNAL_SERVER_ERROR == "INTERNAL_SERVER_ERROR"
BAD_GATEWAY == "BAD_GATEWAY"
SERVICE_UNAVAILABLE == "SERVICE_UNAVAILABLE"
GATEWAY_TIMEOUT == "GATEWAY_TIMEOUT"
NETWORK_ERROR == "NETWORK_ERROR"
TIMEOUT == "TIMEOUT"
CONNECTION_REFUSED == "CONNECTION_REFUSED"
CIRCUIT_OPEN == "CIRCUIT_OPEN"

CircuitOpenMessage == "Circuit breaker is open - service temporarily unavailable"
UnexpectedMessage == "An unexpected error occurred"

\* ------------------------------------------------------------- validation maps
\* The keys of the validation maps of the model.
Keys == {"a", "b"}

\* A scalar of a validation map: null, a string or a number.
Scalar(k, s, n) == [kind |-> k, str |-> s, num |-> n]
Null == Scalar("null", "", 0)
Str(s) == Scalar("string", s, 0)
Num(n) == Scalar("number", "", n)

\* The value of a key of a validation map: absent (or undefined), a scalar,
\* or a list of scalars.
AbsentValue == [kind |-> "absent", str |-> "", num |-> 0, items |-> <<>>]
ScalarValue(sc) == [kind |-> sc.kind, str |-> sc.str, num |-> sc.num, items |-> <<>>]
ListValue(items) == [kind |-> "list", str |-> "", num |-> 0, items |-> items]

Values ==
    { AbsentValue, ScalarValue(Null), ScalarValue(Str("y")), ScalarValue(Num(5)),
      ListValue(<<>>), ListValue(<<Str("x")>>), ListValue(<<Str("x"), Num(7)>>) }

\* The errors member of a thrown value or of its response data: not there, or
\* an object.
NoErrorsMember == [present |-> FALSE, fields |-> [k \in Keys |-> AbsentValue]]
ErrorMaps == {[present |-> TRUE, fields |-> f] : f \in [Keys -> Values]}

\* EnhancedApiError.errors: undefined, or a map from the kept keys to lists of
\* strings.
NoErrors == [defined |-> FALSE, fields |-> [k \in Keys |-> [kept |-> FALSE, list |-> <<>>]]]

\* String(v)
String(v) ==
    CASE v.kind = "string" -> v.str
      [] v.kind = "number" -> ToString(v.num)
      [] OTHER -> "null"

\* A raw failure thrown by an operation: the fields the classifier probes.
\*   isAxiosError    the isAxiosError === true marker
\*   status, message the object's own status / message (NoNum / NoStr if absent)
\*   code            the object's own code (NoStr if absent)
\*   hasResponse     a response member is present
\*   responseStatus  response.status (NoNum if absent)
\*   dataMessage     response.data.message (NoStr if absent)
\*   errors          the object's own errors
\*   dataErrors      response.data.errors
RawFailure(ax, st, msg, cd, hr, rs, dm) ==
    [isAxiosError |-> ax, status |-> st, message |-> msg, code |-> cd,
     hasResponse |-> hr, responseStatus |-> rs, dataMessage |-> dm,
     errors |-> NoErrorsMember, dataErrors |-> NoErrorsMember]

\* { status, message } as thrown by the interceptors and the tests.
ApiFailure(st, msg) == RawFailure(FALSE, st, msg, NoStr, FALSE, NoNum, NoStr)

\* The failures an operation of the model can end in.
OperationFailures ==
    { ApiFailure(500, "Server error"),
      ApiFailure(400, "Bad request"),
      ApiFailure(NoNum, "Network Error") }

\* The failures a request of a client without retry can end in: those above
\* and an axios error carrying a 500 response.
RequestFailures ==
    OperationFailures \cup
    { RawFailure(TRUE, NoNum, "Server error", NoStr, TRUE, 500, "Internal server error") }

\* The statuses of the model: those getErrorCode and isRetryable name, and
\* one more of each class (3xx, 4xx, 5xx).
Statuses == {302, 400, 401, 403, 404, 405, 408, 409, 418, 422, 429,
             500, 501, 502, 503, 504}

Messages == {NoStr, "Network Error", "Request failed"}

TransportCodes == {NoStr, "ECONNABORTED", "ECONNREFUSED", CIRCUIT_OPEN}

\* Every shape of thrown value the classifier tells apart.
RawFailures ==
    { RawFailure(ax, st, msg, cd, hr, rs, dm) :
        ax \in BOOLEAN, st \in Statuses \cup {NoNum}, msg \in Messages,
        cd \in TransportCodes, hr \in {FALSE}, rs \in {NoNum}, dm \in {NoStr} }
    \cup
    { RawFailure(ax, st, msg, cd, hr, rs, dm) :
        ax \in BOOLEAN, st \in Statuses \cup {NoNum}, msg \in Messages,
        cd \in TransportCodes, hr \in {TRUE}, rs \in Statuses \cup {NoNum},
        dm \in {NoStr, "Internal server error"} }

\* ------------------------------------------------------------- ErrorHandler: classification
isAxiosError(error) == error.isAxiosError

isApiErrorLike(error) == error.status # NoNum /\ error.message # NoStr

hasResponse(error) == error.hasResponse

extractPlainMessage(error) == error.message

\* getErrorCode testing for the bare "Network Error" before the transport codes.
getErrorCode_NetworkFirst(status, error) ==
    IF ~hasResponse(error) /\ extractPlainMessage(error) = "Network Error"
         THEN NETWORK_ERROR
    ELSE IF error.code = "ECONNABORTED" THEN TIMEOUT
    ELSE IF error.code = "ECONNREFUSED" THEN CONNECTION_REFUSED
    ELSE IF error.code = CIRCUIT_OPEN THEN CIRCUIT_OPEN
    ELSE CASE status = 400 -> BAD_REQUEST
           [] status = 401 -> UNAUTHORIZED
           [] status = 403 -> FORBIDDEN
           [] status = 404 -> NOT_FOUND
           [] status = 405 -> METHOD_NOT_ALLOWED
           [] status = 409 -> CONFLICT
           [] status = 422 -> UNPROCESSABLE_ENTITY
           [] status = 429 -> TOO_MANY_REQUESTS
           [] status = 500 -> INTERNAL_SERVER_ERROR
           [] status = 502 -> BAD_GATEWAY
           [] status = 503 -> SERVICE_UNAVAILABLE
           [] status = 504 -> GATEWAY_TIMEOUT
           [] OTHER -> IF status >= 500 THEN INTERNAL_SERVER_ERROR ELSE BAD_REQUEST

getErrorCode(status, error) ==
    IF error.code = "ECONNABORTED" THEN TIMEOUT
    ELSE IF error.code = "ECONNREFUSED" THEN CONNECTION_REFUSED
    ELSE IF error.code = CIRCUIT_OPEN THEN CIRCUIT_OPEN
    ELSE IF ~hasResponse(error) /\ extractPlainMessage(error) = "Network Error"
         THEN NETWORK_ERROR
    ELSE CASE status = 400 -> BAD_REQUEST
           [] status = 401 -> UNAUTHORIZED
           [] status = 403 -> FORBIDDEN
           [] status = 404 -> NOT_FOUND
           [] status = 405 -> METHOD_NOT_ALLOWED
           [] status = 409 -> CONFLICT
           [] status = 422 -> UNPROCESSABLE_ENTITY
           [] status = 429 -> TOO_MANY_REQUESTS
           [] status = 500 -> INTERNAL_SERVER_ERROR
           [] status = 502 -> BAD_GATEWAY
           [] status = 503 -> SERVICE_UNAVAILABLE
           [] status = 504 -> GATEWAY_TIMEOUT
           [] OTHER -> IF status >= 500 THEN INTERNAL_SERVER_ERROR ELSE BAD_REQUEST

getErrorMessage(error) ==
    IF extractPlainMessage(error) # NoStr /\ extractPlainMessage(error) # ""
    THEN extractPlainMessage(error)
    ELSE IF isAxiosError(error) /\ error.hasResponse /\ error.dataMessage # NoStr
         THEN error.dataMessage
         ELSE UnexpectedMessage

\* The status isRetryable reads: the object's own status when it is
\* ApiError-like, else the response status of an axios error, else undefined.
retryableStatus(error) ==
    IF isApiErrorLike(error) THEN error.status
    ELSE IF isAxiosError(error) /\ error.hasResponse THEN error.responseStatus
    ELSE NoNum

\* isRetryable taking 400 for 408 among the retryable client errors.
isRetryable_400(error) ==
    IF error.code = CIRCUIT_OPEN THEN FALSE
    ELSE LET status == retryableStatus(error) IN
         IF status # NoNum /\ status # 0 /\ status >= 400 /\ status < 500
         THEN status = 429 \/ status = 400
         ELSE status = NoNum \/ status >= 500

isRetryable(error) ==
    IF error.code = CIRCUIT_OPEN THEN FALSE
    ELSE LET status == retryableStatus(error) IN
         IF status # NoNum /\ status # 0 /\ status >= 400 /\ status < 500
         THEN status = 429 \/ status = 408
         ELSE status = NoNum \/ status >= 500

\* enhancedStatus giving 408 to a failure with the aborted-connection code.
enhancedStatus_Timeout408(error) ==
    IF error.code = "ECONNABORTED" THEN 408
    ELSE IF isAxiosError(error) /\ error.hasResponse /\ error.responseStatus # NoNum
    THEN error.responseStatus
    ELSE IF isApiErrorLike(error) THEN error.status
    ELSE 500

enhancedStatus(error) ==
    IF isAxiosError(error) /\ error.hasResponse /\ error.responseStatus # NoNum
    THEN error.responseStatus
    ELSE IF isApiErrorLike(error) THEN error.status
    ELSE 500

\* The loop over Object.entries of a validation map, and the map or undefined
\* that is returned after it.
normalized(errors) ==
    LET result == [k \in Keys |->
                     LET value == errors.fields[k] IN
                     IF value.kind = "list"
                     THEN [kept |-> TRUE,
                           list |-> [i \in 1..Len(value.items) |-> String(value.items[i])]]
                     ELSE IF value.kind \in {"string", "number"}
                     THEN [kept |-> TRUE, list |-> <<String(value)>>]
                     ELSE [kept |-> FALSE, list |-> <<>>]]
    IN  IF \E k \in Keys : result[k].kept
        THEN [defined |-> TRUE, fields |-> result]
        ELSE NoErrors

extractValidationErrors(error) ==
    IF isApiErrorLike(error) /\ error.errors.present
    THEN normalized(error.errors)
    ELSE IF isAxiosError(error) /\ error.hasResponse /\ error.dataErrors.present
    THEN normalized(error.dataErrors)
    ELSE NoErrors

\* enhanceError stamping the number of the attempt instead of the retryCount.
enhanceError_StampsAttempt(error, retryCount) ==
    [message |-> getErrorMessage(error),
     status |-> enhancedStatus(error),
     code |-> getErrorCode(enhancedStatus(error), error),
     retryable |-> isRetryable(error),
     errors |-> extractValidationErrors(error),
     retryCount |-> retryCount + 1]

\* An EnhancedApiError: the fields downstream logic reads.
enhanceError(error, retryCount) ==
    [message |-> getErrorMessage(error),
     status |-> enhancedStatus(error),
     code |-> getErrorCode(enhancedStatus(error), error),
     retryable |-> isRetryable(error),
     errors |-> extractValidationErrors(error),
     retryCount |-> retryCount]

\* An EnhancedApiError seen as the argument of a predicate over errors.
asFailure(enhanced) ==
    RawFailure(FALSE, enhanced.status, enhanced.message, enhanced.code,
               FALSE, NoNum, NoStr)

\* ------------------------------------------------------------- state
VARIABLES
    config,          \* CircuitBreaker.config: failureThreshold, resetTimeout
    retryConfig,     \* ErrorHandler.retryConfig: maxRetries, shouldRetry
    enableRetry,     \* MixpostClient.enableRetry
    cb,              \* the CircuitBreaker's fields
    inflight,        \* the bag of executeWithRetry calls that have not completed
    completed,       \* history: the call the latest step completed, if any
    now,             \* the clock read by Date.now()
    started,         \* history: executeWithRetry calls made so far
    streak,          \* history: calls that ended in onFailure since construction,
                     \*   NoNum once a call has ended in onSuccess
    openedAt         \* history: instant of the last entry into OPEN

vars ==
    <<config, retryConfig, enableRetry, cb, inflight, completed, now, started, streak, openedAt>>

\* shouldRetry of a RetryConfig: the default predicate of defaultRetryConfig,
\* a supplied predicate (here: one that accepts a set of statuses), or an
\* explicit undefined that overrides the default in the object spread.
DefaultPolicy == [kind |-> "default", accepts |-> {}]
UndefinedPolicy == [kind |-> "undefined", accepts |-> {}]
CustomPolicy(S) == [kind |-> "custom", accepts |-> S]

\* A predicate that accepts every error of the model: every status an
\* enhanced failure or the circuit-open error carries.
AcceptAll == CustomPolicy({400, 500, 503})

Policies ==
    {DefaultPolicy, UndefinedPolicy, CustomPolicy({400}), AcceptAll}

NoError ==
    [message |-> "", status |-> NoNum, code |-> NoStr, retryable |-> FALSE,
     errors |-> NoErrors, retryCount |-> NoNum]

NoFailure == RawFailure(FALSE, NoNum, NoStr, NoStr, FALSE, NoNum, NoStr)

\* One executeWithRetry call.
\*   pc          where the call is: "op" awaiting fn(), "sleep" awaiting the
\*               backoff timer, "resolved" / "rejected" completed
\*   retryCount  the retryCount parameter of the running retryOperation
\*   attempts    history: invocations of fn() by this call
\*   sleeps      history: backoff waits begun by this call
\*   failed      history: attempts of this call that failed
\*   outcome     history: how the latest attempt ended ("none" while it runs)
\*   last        history: the raw failure of the latest attempt, if it failed
\*   error       the error thrown to the caller
\*   result      the value returned to the caller: the number of the attempt
\*               that produced it
\*   short       history: the call was thrown back by the open breaker
\*   delay       the delay computed for the backoff wait, in units of
\*               1 / (2 * JitterSteps) of a millisecond
NoCall ==
    [pc |-> "none", retryCount |-> 0, attempts |-> 0, sleeps |-> 0,
     failed |-> 0, outcome |-> "none", last |-> NoFailure, error |-> NoError,
     result |-> 0, short |-> FALSE, delay |-> 0]

Max(a, b) == IF a >= b THEN a ELSE b

Calls == BagToSet(inflight)

\* The bag of calls in flight with call r replaced by q.
Replace(r, q) == (inflight (-) SetToBag({r})) (+) SetToBag({q})

\* ------------------------------------------------------------- CircuitBreaker
\* (this.nextAttemptTime || 0)
orZero(t) == IF t = NoNum THEN 0 ELSE t

\* The guard of execute under which the call is thrown back at once.
shortCircuits(b, t) == b.state = "OPEN" /\ t < orZero(b.nextAttemptTime)

\* admit leaving an OPEN breaker OPEN.
admit_NoHalfOpen(b) == b

\* The breaker after the entry of a call that is let through.
admit(b) ==
    IF b.state = "OPEN"
    THEN [b EXCEPT !.state = "HALF_OPEN", !.successCount = 0]
    ELSE b

\* onSuccess closing the circuit on the second success.
onSuccess_ClosesEarly(b) ==
    IF b.state = "HALF_OPEN"
    THEN IF b.successCount + 1 >= 2
         THEN [b EXCEPT !.successCount = @ + 1, !.state = "CLOSED", !.failures = 0]
         ELSE [b EXCEPT !.successCount = @ + 1]
    ELSE IF b.state = "CLOSED"
         THEN [b EXCEPT !.failures = Max(0, @ - 1)]
         ELSE b

\* onSuccess closing the circuit one trial success later.
onSuccess_ClosesLate(b) ==
    IF b.state = "HALF_OPEN"
    THEN IF b.successCount + 1 >= 4
         THEN [b EXCEPT !.successCount = @ + 1, !.state = "CLOSED", !.failures = 0]
         ELSE [b EXCEPT !.successCount = @ + 1]
    ELSE IF b.state = "CLOSED"
         THEN [b EXCEPT !.failures = Max(0, @ - 1)]
         ELSE b

\* onSuccess that also closes an OPEN circuit.
onSuccess_ClosesFromOpen(b) ==
    IF b.state = "HALF_OPEN"
    THEN IF b.successCount + 1 >= 3
         THEN [b EXCEPT !.successCount = @ + 1, !.state = "CLOSED", !.failures = 0]
         ELSE [b EXCEPT !.successCount = @ + 1]
    ELSE IF b.state = "CLOSED"
         THEN [b EXCEPT !.failures = Max(0, @ - 1)]
         ELSE [b EXCEPT !.state = "CLOSED", !.failures = 0]

\* onSuccess closing the circuit without resetting the failure counter.
onSuccess_KeepsFailures(b) ==
    IF b.state = "HALF_OPEN"
    THEN IF b.successCount + 1 >= 3
         THEN [b EXCEPT !.successCount = @ + 1, !.state = "CLOSED"]
         ELSE [b EXCEPT !.successCount = @ + 1]
    ELSE IF b.state = "CLOSED"
         THEN [b EXCEPT !.failures = Max(0, @ - 1)]
         ELSE b

\* onSuccess leaving the failure counter alone in CLOSED.
onSuccess_NoDecay(b) ==
    IF b.state = "HALF_OPEN"
    THEN IF b.successCount + 1 >= 3
         THEN [b EXCEPT !.successCount = @ + 1, !.state = "CLOSED", !.failures = 0]
         ELSE [b EXCEPT !.successCount = @ + 1]
    ELSE b

onSuccess(b) ==
    IF b.state = "HALF_OPEN"
    THEN IF b.successCount + 1 >= 3
         THEN [b EXCEPT !.successCount = @ + 1, !.state = "CLOSED", !.failures = 0]
         ELSE [b EXCEPT !.successCount = @ + 1]
    ELSE IF b.state = "CLOSED"
         THEN [b EXCEPT !.failures = Max(0, @ - 1)]
         ELSE b

\* onFailure with the threshold compared by > instead of >=.
onFailure_LateOpen(b, t) ==
    IF b.failures + 1 > config.failureThreshold
    THEN [b EXCEPT !.failures = @ + 1, !.lastFailureTime = t,
                   !.state = "OPEN", !.nextAttemptTime = t + config.resetTimeout]
    ELSE [b EXCEPT !.failures = @ + 1, !.lastFailureTime = t]

\* onFailure whose update is lost when another call is in flight.
onFailure_LostWhenConcurrent(b, t) ==
    IF BagCardinality(inflight) > 1
    THEN b
    ELSE IF b.failures + 1 >= config.failureThreshold
    THEN [b EXCEPT !.failures = @ + 1, !.lastFailureTime = t,
                   !.state = "OPEN", !.nextAttemptTime = t + config.resetTimeout]
    ELSE [b EXCEPT !.failures = @ + 1, !.lastFailureTime = t]

\* onFailure that counts a failure in HALF_OPEN without reopening.
onFailure_HalfOpenStays(b, t) ==
    IF b.state # "HALF_OPEN" /\ b.failures + 1 >= config.failureThreshold
    THEN [b EXCEPT !.failures = @ + 1, !.lastFailureTime = t,
                   !.state = "OPEN", !.nextAttemptTime = t + config.resetTimeout]
    ELSE [b EXCEPT !.failures = @ + 1, !.lastFailureTime = t]

onFailure(b, t) ==
    IF b.failures + 1 >= config.failureThreshold
    THEN [b EXCEPT !.failures = @ + 1, !.lastFailureTime = t,
                   !.state = "OPEN", !.nextAttemptTime = t + config.resetTimeout]
    ELSE [b EXCEPT !.failures = @ + 1, !.lastFailureTime = t]

createCircuitOpenError ==
    [message |-> CircuitOpenMessage, status |-> 503, code |-> CIRCUIT_OPEN,
     retryable |-> FALSE, errors |-> NoErrors, retryCount |-> NoNum]

\* ------------------------------------------------------------- ErrorHandler: retry
\* shouldRetry consulting the classifier's flag besides a supplied predicate.
shouldRetry_AndRetryable(enhanced) ==
    CASE retryConfig.shouldRetry.kind = "default" -> isRetryable(asFailure(enhanced))
      [] retryConfig.shouldRetry.kind = "custom" ->
            /\ enhanced.status \in retryConfig.shouldRetry.accepts
            /\ enhanced.retryable
      [] OTHER -> FALSE

\* this.retryConfig.shouldRetry?.(enhancedError)
shouldRetry(enhanced) ==
    CASE retryConfig.shouldRetry.kind = "default" -> isRetryable(asFailure(enhanced))
      [] retryConfig.shouldRetry.kind = "custom" ->
            enhanced.status \in retryConfig.shouldRetry.accepts
      [] OTHER -> FALSE

\* retries with the budget compared by <= instead of <.
retries_OneMore(retryCount, enhanced) ==
    retryCount <= retryConfig.maxRetries /\ shouldRetry(enhanced)

\* The condition of retryOperation's catch block under which it retries.
retries(retryCount, enhanced) ==
    retryCount < retryConfig.maxRetries /\ shouldRetry(enhanced)

Min(a, b) == IF a <= b THEN a ELSE b

\* The number of delay units in a millisecond.
PerMs == 2 * JitterSteps

\* calculateBackoffDelay returning the jittered delay without the ceiling.
calculateBackoffDelay_NoCeiling(retryCount, random) ==
    LET exponentialDelay == retryConfig.baseDelay * 2 ^ retryCount
    IN  exponentialDelay * (JitterSteps + random)

\* calculateBackoffDelay with Math.random() = random / JitterSteps; the result
\* is in delay units: exponentialDelay * (0.5 + random / JitterSteps * 0.5)
\* milliseconds are exponentialDelay * (JitterSteps + random) units.
calculateBackoffDelay(retryCount, random) ==
    LET exponentialDelay == retryConfig.baseDelay * 2 ^ retryCount
        jitteredDelay == exponentialDelay * (JitterSteps + random)
    IN  Min(jitteredDelay, retryConfig.maxDelay * PerMs)

\* ------------------------------------------------------------- initial state
\* The state after the constructors of ErrorHandler and CircuitBreaker.
Constructed ==
    /\ config \in [failureThreshold : 1..MaxThreshold, resetTimeout : 1..MaxResetTimeout]
    /\ retryConfig \in [maxRetries : 0..MaxMaxRetries, baseDelay : {1},
                        maxDelay : {MaxMaxDelay}, shouldRetry : Policies]
    /\ cb = [state |-> "CLOSED", failures |-> 0, successCount |-> 0,
             lastFailureTime |-> NoNum, nextAttemptTime |-> NoNum]
    /\ inflight = EmptyBag
    /\ completed = NoCall
    /\ now = 0
    /\ started = 0
    /\ streak = 0
    /\ openedAt = NoNum

Init ==
    /\ Constructed
    /\ enableRetry = TRUE

\* execute pushing the reopening deadline back at each rejection.
execute_RejectionPostpones ==
    /\ enableRetry
    /\ started < MaxCalls
    /\ started' = started + 1
    /\ IF shortCircuits(cb, now)
       THEN /\ completed' = [NoCall EXCEPT !.pc = "rejected", !.short = TRUE,
                                           !.error = createCircuitOpenError]
            /\ cb' = [cb EXCEPT !.nextAttemptTime = now + config.resetTimeout]
            /\ UNCHANGED inflight
       ELSE /\ BagCardinality(inflight) < MaxInFlight
            /\ inflight' = inflight (+) SetToBag({[NoCall EXCEPT !.pc = "op",
                                                                 !.attempts = 1]})
            /\ cb' = admit(cb)
            /\ completed' = NoCall
    /\ UNCHANGED <<config, retryConfig, enableRetry, now, streak, openedAt>>

\* ------------------------------------------------------------- actions
\* execute with the circuit-open error thrown inside retryOperation, where
\* the budget and the predicate decide about it.
execute_ShortCircuitInRetry ==
    /\ enableRetry
    /\ started < MaxCalls
    /\ started' = started + 1
    /\ IF shortCircuits(cb, now)
       THEN IF retries(0, createCircuitOpenError)
            THEN /\ BagCardinality(inflight) < MaxInFlight
                 /\ inflight' = inflight (+) SetToBag({[NoCall EXCEPT !.pc = "sleep",
                                                                      !.short = TRUE,
                                                                      !.sleeps = 1]})
                 /\ completed' = NoCall
                 /\ UNCHANGED cb
            ELSE /\ completed' = [NoCall EXCEPT !.pc = "rejected", !.short = TRUE,
                                                !.error = createCircuitOpenError]
                 /\ UNCHANGED <<cb, inflight>>
       ELSE /\ BagCardinality(inflight) < MaxInFlight
            /\ inflight' = inflight (+) SetToBag({[NoCall EXCEPT !.pc = "op",
                                                                 !.attempts = 1]})
            /\ cb' = admit(cb)
            /\ completed' = NoCall
    /\ UNCHANGED <<config, retryConfig, enableRetry, now, streak, openedAt>>

\* executeWithRetry is called: CircuitBreaker.execute up to its await, which
\* is either the throw of the circuit-open error or the first fn().
execute ==
    /\ enableRetry
    /\ started < MaxCalls
    /\ started' = started + 1
    /\ IF shortCircuits(cb, now)
       THEN /\ completed' = [NoCall EXCEPT !.pc = "rejected", !.short = TRUE,
                                           !.error = createCircuitOpenError]
            /\ UNCHANGED <<cb, inflight>>
       ELSE /\ BagCardinality(inflight) < MaxInFlight
            /\ inflight' = inflight (+) SetToBag({[NoCall EXCEPT !.pc = "op",
                                                                 !.attempts = 1]})
            /\ cb' = admit(cb)
            /\ completed' = NoCall
    /\ UNCHANGED <<config, retryConfig, enableRetry, now, streak, openedAt>>

\* The awaited fn() of retryOperation resolves: retryOperation returns the
\* result, CircuitBreaker.execute resumes, calls onSuccess and returns it.
operationSucceeds(r) ==
    /\ r.pc = "op"
    /\ cb' = onSuccess(cb)
    /\ inflight' = inflight (-) SetToBag({r})
    /\ completed' = [r EXCEPT !.pc = "resolved", !.outcome = "ok",
                              !.result = r.attempts]
    /\ streak' = NoNum
    /\ UNCHANGED <<config, retryConfig, enableRetry, now, started, openedAt>>

\* operationFails rethrowing the raw failure of an exhausted call unenhanced.
operationFails_RawRethrow(r, raw) ==
    /\ r.pc = "op"
    /\ LET enhanced == enhanceError(raw, r.retryCount) IN
       IF retries(r.retryCount, enhanced)
       THEN /\ inflight' = Replace(r, [r EXCEPT !.pc = "sleep", !.outcome = "fail",
                                                !.failed = @ + 1, !.last = raw,
                                                !.sleeps = @ + 1])
            /\ completed' = NoCall
            /\ UNCHANGED <<cb, streak, openedAt>>
       ELSE /\ cb' = onFailure(cb, now)
            /\ inflight' = inflight (-) SetToBag({r})
            /\ completed' = [r EXCEPT !.pc = "rejected", !.outcome = "fail",
                                      !.failed = @ + 1, !.last = raw,
                                      !.error = [enhanced EXCEPT
                                                   !.status = raw.status,
                                                   !.code = raw.code]]
            /\ streak' = IF streak = NoNum THEN NoNum ELSE streak + 1
            /\ openedAt' = IF cb.state # "OPEN" /\ cb'.state = "OPEN"
                           THEN now ELSE openedAt
    /\ UNCHANGED <<config, retryConfig, enableRetry, now, started>>

\* operationFails retrying at once, without the backoff wait.
operationFails_NoBackoff(r, raw) ==
    /\ r.pc = "op"
    /\ LET enhanced == enhanceError(raw, r.retryCount) IN
       IF retries(r.retryCount, enhanced)
       THEN /\ inflight' = Replace(r, [r EXCEPT !.retryCount = @ + 1,
                                                !.attempts = @ + 1,
                                                !.failed = @ + 1])
            /\ completed' = NoCall
            /\ UNCHANGED <<cb, streak, openedAt>>
       ELSE /\ cb' = onFailure(cb, now)
            /\ inflight' = inflight (-) SetToBag({r})
            /\ completed' = [r EXCEPT !.pc = "rejected", !.outcome = "fail",
                                      !.failed = @ + 1, !.last = raw,
                                      !.error = enhanced]
            /\ streak' = IF streak = NoNum THEN NoNum ELSE streak + 1
            /\ openedAt' = IF cb.state # "OPEN" /\ cb'.state = "OPEN"
                           THEN now ELSE openedAt
    /\ UNCHANGED <<config, retryConfig, enableRetry, now, started>>

\* The awaited fn() of retryOperation rejects: the catch block. It either
\* awaits sleep, or throws the enhanced error, on which CircuitBreaker.execute
\* resumes, calls onFailure and rethrows.
\* operationFails with the breaker inside the retry loop: every failed
\* attempt is reported to it.
operationFails_CountsAttempts(r, raw) ==
    /\ r.pc = "op"
    /\ LET enhanced == enhanceError(raw, r.retryCount) IN
       IF retries(r.retryCount, enhanced)
       THEN /\ inflight' = Replace(r, [r EXCEPT !.pc = "sleep", !.outcome = "fail",
                                                !.failed = @ + 1, !.last = raw,
                                                !.sleeps = @ + 1])
            /\ completed' = NoCall
            /\ cb' = onFailure(cb, now)
            /\ UNCHANGED <<streak, openedAt>>
       ELSE /\ cb' = onFailure(cb, now)
            /\ inflight' = inflight (-) SetToBag({r})
            /\ completed' = [r EXCEPT !.pc = "rejected", !.outcome = "fail",
                                      !.failed = @ + 1, !.last = raw,
                                      !.error = enhanced]
            /\ streak' = IF streak = NoNum THEN NoNum ELSE streak + 1
            /\ openedAt' = IF cb.state # "OPEN" /\ cb'.state = "OPEN"
                           THEN now ELSE openedAt
    /\ UNCHANGED <<config, retryConfig, enableRetry, now, started>>

operationFails(r, raw) ==
    /\ r.pc = "op"
    /\ LET enhanced == enhanceError(raw, r.retryCount) IN
       IF retries(r.retryCount, enhanced)
       THEN /\ inflight' = Replace(r, [r EXCEPT !.pc = "sleep", !.outcome = "fail",
                                                !.failed = @ + 1, !.last = raw,
                                                !.sleeps = @ + 1])
            /\ completed' = NoCall
            /\ UNCHANGED <<cb, streak, openedAt>>
       ELSE /\ cb' = onFailure(cb, now)
            /\ inflight' = inflight (-) SetToBag({r})
            /\ completed' = [r EXCEPT !.pc = "rejected", !.outcome = "fail",
                                      !.failed = @ + 1, !.last = raw,
                                      !.error = enhanced]
            /\ streak' = IF streak = NoNum THEN NoNum ELSE streak + 1
            /\ openedAt' = IF cb.state # "OPEN" /\ cb'.state = "OPEN"
                           THEN now ELSE openedAt
    /\ UNCHANGED <<config, retryConfig, enableRetry, now, started>>

\* sleep with one retry counter on the handler, shared by the calls in flight.
sleep_SharedCounter(r) ==
    /\ r.pc = "sleep"
    /\ LET shared == CHOOSE n \in {q.retryCount : q \in Calls} :
                        \A q \in Calls : q.retryCount <= n
       IN  inflight' = Replace(r, [r EXCEPT !.pc = "op", !.retryCount = shared + 1,
                                            !.attempts = @ + 1, !.outcome = "none",
                                            !.last = NoFailure])
    /\ completed' = NoCall
    /\ UNCHANGED <<config, retryConfig, enableRetry, cb, now, started, streak, openedAt>>

\* The backoff timer fires: retryOperation recurses and calls fn() again.
\* The timer's delay is on another scale than the breaker's resetTimeout, so
\* the timer may fire at any reading of the clock.
sleep(r) ==
    /\ r.pc = "sleep"
    /\ inflight' = Replace(r, [r EXCEPT !.pc = "op", !.retryCount = @ + 1,
                                        !.attempts = @ + 1, !.outcome = "none",
                                        !.last = NoFailure])
    /\ completed' = NoCall
    /\ UNCHANGED <<config, retryConfig, enableRetry, cb, now, started, streak, openedAt>>

\* executeRequest of a client constructed with enableRetry: false, up to its
\* await of request().
executeRequest ==
    /\ ~enableRetry
    /\ started < MaxCalls
    /\ started' = started + 1
    /\ BagCardinality(inflight) < MaxInFlight
    /\ inflight' = inflight (+) SetToBag({[NoCall EXCEPT !.pc = "op", !.attempts = 1]})
    /\ completed' = NoCall
    /\ UNCHANGED <<config, retryConfig, enableRetry, cb, now, streak, openedAt>>

\* The awaited request() of executeRequest resolves.
requestSucceeds(r) ==
    /\ ~enableRetry
    /\ r.pc = "op"
    /\ inflight' = inflight (-) SetToBag({r})
    /\ completed' = [r EXCEPT !.pc = "resolved", !.outcome = "ok", !.result = r.attempts]
    /\ UNCHANGED <<config, retryConfig, enableRetry, cb, now, started, streak, openedAt>>

\* requestFails reporting the failure to the breaker.
requestFails_CountsFailure(r, raw) ==
    /\ ~enableRetry
    /\ r.pc = "op"
    /\ inflight' = inflight (-) SetToBag({r})
    /\ completed' = [r EXCEPT !.pc = "rejected", !.outcome = "fail", !.failed = @ + 1,
                              !.last = raw, !.error = enhanceError(raw, NoNum)]
    /\ cb' = onFailure(cb, now)
    /\ UNCHANGED <<config, retryConfig, enableRetry, now, started, streak, openedAt>>

\* The awaited request() of executeRequest rejects: the catch block throws
\* enhanceError(error, context), called without a retryCount.
requestFails(r, raw) ==
    /\ ~enableRetry
    /\ r.pc = "op"
    /\ inflight' = inflight (-) SetToBag({r})
    /\ completed' = [r EXCEPT !.pc = "rejected", !.outcome = "fail", !.failed = @ + 1,
                              !.last = raw, !.error = enhanceError(raw, NoNum)]
    /\ UNCHANGED <<config, retryConfig, enableRetry, cb, now, started, streak, openedAt>>

\* Time passes.
tick ==
    /\ now < MaxTime
    /\ now' = now + 1
    /\ completed' = NoCall
    /\ UNCHANGED <<config, retryConfig, enableRetry, cb, inflight, started, streak, openedAt>>

Next ==
    \/ execute
    \/ \E r \in Calls : operationSucceeds(r)
    \/ \E r \in Calls : \E raw \in OperationFailures : operationFails(r, raw)
    \/ \E r \in Calls : sleep(r)
    \/ tick

Spec == Init /\ [][Next]_vars

\* One breaker configuration, every retry policy.
OneBreakerInit ==
    /\ Init
    /\ config = [failureThreshold |-> MaxThreshold, resetTimeout |-> 1]

\* Every awaited promise settles: each attempt of the operation completes and
\* each backoff timer fires.
FairSpec ==
    /\ OneBreakerInit
    /\ [][Next]_vars
    /\ WF_vars(\E r \in Calls :
                  operationSucceeds(r) \/ \E raw \in OperationFailures : operationFails(r, raw))
    /\ WF_vars(\E r \in Calls : sleep(r))

\* An ErrorHandler whose breaker has just opened: failureThreshold calls have
\* failed at instant 0 and none is in flight. The calls of the behaviour are
\* counted from here.
TrippedInit ==
    /\ config \in [failureThreshold : 1..MaxThreshold, resetTimeout : {1}]
    /\ retryConfig \in [maxRetries : 0..MaxMaxRetries, baseDelay : {1},
                        maxDelay : {MaxMaxDelay}, shouldRetry : {DefaultPolicy}]
    /\ enableRetry = TRUE
    /\ cb = [state |-> "OPEN", failures |-> config.failureThreshold,
             successCount |-> 0, lastFailureTime |-> 0,
             nextAttemptTime |-> config.resetTimeout]
    /\ inflight = EmptyBag
    /\ completed = NoCall
    /\ now = 0
    /\ started = 0
    /\ streak = config.failureThreshold
    /\ openedAt = 0

TrippedSpec == TrippedInit /\ [][Next]_vars

\* The service is healthy again: every attempt of the operation succeeds.
RecoveryNext ==
    \/ execute
    \/ \E r \in Calls : operationSucceeds(r)
    \/ tick

\* Calls keep arriving, every attempt completes and time advances, as far as
\* the bounds of the model let them.
RecoverySpec ==
    /\ TrippedInit
    /\ [][RecoveryNext]_vars
    /\ WF_vars(execute)
    /\ WF_vars(\E r \in Calls : operationSucceeds(r))
    /\ WF_vars(tick)

\* One call, let through by the CLOSED breaker of an ErrorHandler with the
\* default retry predicate, whose operation can fail with a thrown value of
\* any shape.
DecisionInit ==
    /\ config = [failureThreshold |-> MaxThreshold, resetTimeout |-> 1]
    /\ retryConfig \in [maxRetries : 0..1, baseDelay : {1},
                        maxDelay : {MaxMaxDelay}, shouldRetry : {DefaultPolicy}]
    /\ enableRetry = TRUE
    /\ cb = [state |-> "CLOSED", failures |-> 0, successCount |-> 0,
             lastFailureTime |-> NoNum, nextAttemptTime |-> NoNum]
    /\ inflight = SetToBag({[NoCall EXCEPT !.pc = "op", !.attempts = 1]})
    /\ completed = NoCall
    /\ now = 0
    /\ started = 1
    /\ streak = 0
    /\ openedAt = NoNum

DecisionNext ==
    \/ \E r \in Calls : \E raw \in RawFailures : operationFails(r, raw)
    \/ \E r \in Calls : sleep(r)

DecisionSpec == DecisionInit /\ [][DecisionNext]_vars

\* A client constructed with enableRetry: false.
DirectInit ==
    /\ Constructed
    /\ enableRetry = FALSE

DirectNext ==
    \/ executeRequest
    \/ \E r \in Calls : requestSucceeds(r)
    \/ \E r \in Calls : \E raw \in RequestFailures : requestFails(r, raw)
    \/ tick

DirectSpec == DirectInit /\ [][DirectNext]_vars

\* classify reporting the failure it classifies to the breaker.
classify_CountsFailure ==
    /\ completed.pc = "thrown"
    /\ completed' = [completed EXCEPT !.pc = "rejected", !.outcome = "fail",
                                      !.error = enhanceError(completed.last, NoNum)]
    /\ cb' = onFailure(cb, now)
    /\ UNCHANGED <<config, retryConfig, enableRetry, inflight, now, started,
                   streak, openedAt>>

\* enhanceError is called on a thrown value (the response interceptors of the
\* client call it on whatever the transport rejects with) and the enhanced
\* error is thrown on. The thrown value is completed.last.
classify ==
    /\ completed.pc = "thrown"
    /\ completed' = [completed EXCEPT !.pc = "rejected", !.outcome = "fail",
                                      !.error = enhanceError(completed.last, NoNum)]
    /\ UNCHANGED <<config, retryConfig, enableRetry, cb, inflight, now, started,
                   streak, openedAt>>

\* One ErrorHandler, constructed with the defaults of the model, and one
\* thrown value of any shape about to be classified.
ClassifyInit ==
    /\ config = [failureThreshold |-> MaxThreshold, resetTimeout |-> 1]
    /\ retryConfig = [maxRetries |-> 0, baseDelay |-> 1, maxDelay |-> MaxMaxDelay,
                      shouldRetry |-> DefaultPolicy]
    /\ enableRetry = TRUE
    /\ cb = [state |-> "CLOSED", failures |-> 0, successCount |-> 0,
             lastFailureTime |-> NoNum, nextAttemptTime |-> NoNum]
    /\ inflight = EmptyBag
    /\ completed \in {[NoCall EXCEPT !.pc = "thrown", !.last = raw] : raw \in RawFailures}
    /\ now = 0
    /\ started = 0
    /\ streak = 0
    /\ openedAt = NoNum

ClassifyNext == classify

ClassifySpec == ClassifyInit /\ [][ClassifyNext]_vars

\* The catch block of retryOperation receives the value the response
\* interceptor threw, which is already an EnhancedApiError, classifies it
\* again with its own retryCount (0 on the first attempt) and, with no retry
\* left, throws the new value.
retryOperationCatch ==
    /\ completed.pc = "rejected"
    /\ ~completed.short
    /\ completed' = [completed EXCEPT !.pc = "rethrown",
                                      !.last = asFailure(completed.error),
                                      !.error = enhanceError(asFailure(completed.error), 0)]
    /\ UNCHANGED <<config, retryConfig, enableRetry, cb, inflight, now, started,
                   streak, openedAt>>

ReclassifyNext == classify \/ retryOperationCatch

ReclassifySpec == ClassifyInit /\ [][ReclassifyNext]_vars

\* The thrown values that carry a validation map: the 422 object the response
\* interceptor throws ({ message, status, errors, response }), a plain
\* { status, message, errors } object, and an axios error whose response data
\* has the map.
ValidationFailures ==
    { [RawFailure(FALSE, 422, "Validation failed", NoStr, hr, rs, NoStr)
          EXCEPT !.errors = m] :
        m \in ErrorMaps, hr \in {TRUE}, rs \in {422} }
    \cup
    { [ApiFailure(422, "Validation failed") EXCEPT !.errors = m] : m \in ErrorMaps }
    \cup
    { [RawFailure(TRUE, NoNum, "Request failed", NoStr, TRUE, 422, NoStr)
          EXCEPT !.dataErrors = m] :
        m \in ErrorMaps }

\* One ErrorHandler and one thrown value with a validation map about to be
\* classified.
ValidationInit ==
    /\ config = [failureThreshold |-> MaxThreshold, resetTimeout |-> 1]
    /\ retryConfig = [maxRetries |-> 0, baseDelay |-> 1, maxDelay |-> MaxMaxDelay,
                      shouldRetry |-> DefaultPolicy]
    /\ enableRetry = TRUE
    /\ cb = [state |-> "CLOSED", failures |-> 0, successCount |-> 0,
             lastFailureTime |-> NoNum, nextAttemptTime |-> NoNum]
    /\ inflight = EmptyBag
    /\ completed \in {[NoCall EXCEPT !.pc = "thrown", !.last = raw] :
                         raw \in ValidationFailures}
    /\ now = 0
    /\ started = 0
    /\ streak = 0
    /\ openedAt = NoNum

ValidationSpec == ValidationInit /\ [][ClassifyNext]_vars

\* The catch block of retryOperation has decided to retry the call in
\* completed: it computes the delay of the backoff wait and starts the wait.
backoff(random) ==
    /\ completed.pc = "caught"
    /\ completed.retryCount < retryConfig.maxRetries
    /\ completed' = [completed EXCEPT
                        !.pc = "sleep", !.sleeps = @ + 1,
                        !.delay = calculateBackoffDelay(completed.retryCount, random)]
    /\ UNCHANGED <<config, retryConfig, enableRetry, cb, inflight, now, started,
                   streak, openedAt>>

\* One ErrorHandler of any delay policy and one call whose attempt with any
\* retryCount below maxRetries has just failed with a retryable error.
BackoffInit ==
    /\ config = [failureThreshold |-> MaxThreshold, resetTimeout |-> 1]
    /\ retryConfig \in [maxRetries : {MaxBackoffRetries}, baseDelay : 1..MaxBaseDelay,
                        maxDelay : 1..MaxMaxDelay, shouldRetry : {DefaultPolicy}]
    /\ enableRetry = TRUE
    /\ cb = [state |-> "CLOSED", failures |-> 0, successCount |-> 0,
             lastFailureTime |-> NoNum, nextAttemptTime |-> NoNum]
    /\ inflight = EmptyBag
    /\ completed \in {[NoCall EXCEPT !.pc = "caught", !.retryCount = n,
                                     !.attempts = n + 1, !.failed = n + 1,
                                     !.sleeps = n, !.outcome = "fail",
                                     !.last = ApiFailure(500, "Server error")] :
                         n \in 0..(MaxBackoffRetries - 1)}
    /\ now = 0
    /\ started = 1
    /\ streak = 0
    /\ openedAt = NoNum

BackoffNext == \E random \in 0..(JitterSteps - 1) : backoff(random)

BackoffSpec == BackoffInit /\ [][BackoffNext]_vars

\* ------------------------------------------------------------- observations
\* The number of calls whose operation is running.
Running == BagCardinality([r \in {q \in Calls : q.pc = "op"} |-> inflight[r]])

\* This step calls executeWithRetry.
Arrives == started' = started + 1

\* This step invokes the wrapped operation.
Invokes == Running' > Running

\* The latest step ended a call in onFailure / in the open breaker's throw.
Failed == completed.pc = "rejected" /\ ~completed.short
ShortCircuited == completed.pc = "rejected" /\ completed.short
Resolved == completed.pc = "resolved"

\* enhanceError has returned: completed.error is the enhanced form of the
\* thrown value completed.last.
Classified == completed.pc = "rejected" /\ completed.last # NoFailure /\ ~completed.short

\* The statuses a thrown value carries, as a status field or as the status of
\* a response.
CarriedStatuses(raw) ==
    {raw.status, IF raw.hasResponse THEN raw.responseStatus ELSE NoNum} \ {NoNum}

\* The status the classifier gives a raw failure of the model.
StatusOf(raw) == IF raw.status # NoNum THEN raw.status ELSE 500

\* ------------------------------------------------------------- claims

\* C1: from a fresh executor, fewer than failureThreshold failed calls (and no
\* success) leave the breaker CLOSED; the failureThreshold-th one leaves it
\* OPEN; and a call made after it, before resetTimeout has passed since the
\* opening, is thrown back with code CIRCUIT_OPEN and status 503 without an
\* invocation of the operation.
C1_OpensAtThreshold ==
    /\ [](streak # NoNum /\ streak < config.failureThreshold => cb.state = "CLOSED")
    /\ [](Failed /\ streak = config.failureThreshold => cb.state = "OPEN")
    /\ [][(Arrives /\ streak = config.failureThreshold /\ cb.state = "OPEN"
             /\ now < openedAt + config.resetTimeout)
          => (/\ completed'.pc = "rejected"
              /\ completed'.error.code = CIRCUIT_OPEN
              /\ completed'.error.status = 503
              /\ completed'.attempts = 0
              /\ ~Invokes
              /\ inflight' = inflight)]_vars

C1_Witness ==
    /\ ShortCircuited
    /\ streak = config.failureThreshold
    /\ config.failureThreshold = MaxThreshold
    /\ cb.state = "OPEN"

\* C2: the wrapped operation is never invoked, as a first attempt or as a
\* retry, while the breaker is OPEN and resetTimeout has not passed since it
\* opened.
C2_NoInvocationWhileOpen ==
    [][Invokes => ~(cb.state = "OPEN" /\ now < openedAt + config.resetTimeout)]_vars

\* C3: a call that arrives while the breaker is OPEN, resetTimeout or more
\* after the instant it entered OPEN, is let through: the phase becomes
\* HALF_OPEN, successCount becomes 0 and the operation is invoked.
C3_AdmittedAfterResetTimeout ==
    [][(Arrives /\ cb.state = "OPEN" /\ now >= openedAt + config.resetTimeout)
       => (cb'.state = "HALF_OPEN" /\ cb'.successCount = 0 /\ Invokes)]_vars

\* C4: in HALF_OPEN a successful call that finds successCount at 0 or 1 leaves
\* the phase HALF_OPEN with successCount one higher; the one that finds it at
\* 2 moves the phase to CLOSED with failures = 0; and the phase goes from
\* HALF_OPEN to CLOSED in no other step.
C4_ClosesOnThirdSuccess ==
    /\ [](cb.state = "HALF_OPEN" => cb.successCount \in 0..2)
    /\ [][(cb.state = "HALF_OPEN" /\ completed'.pc = "resolved")
          => IF cb.successCount < 2
             THEN cb'.state = "HALF_OPEN" /\ cb'.successCount = cb.successCount + 1
             ELSE cb'.state = "CLOSED" /\ cb'.failures = 0]_vars
    /\ [][(cb.state = "HALF_OPEN" /\ cb'.state = "CLOSED")
          => (completed'.pc = "resolved" /\ cb.successCount = 2)]_vars

C4_Witness ==
    /\ Resolved
    /\ cb.state = "CLOSED"
    /\ cb.successCount = 3
    /\ cb.failures = 0
    /\ openedAt # NoNum

\* C5: a call that is let through and whose every attempt fails with a
\* failure the retry predicate accepts invokes the operation exactly
\* maxRetries + 1 times and is then rejected with the status of the failure.
C5_AttemptsWhenAlwaysRetryable ==
    /\ \A r \in Calls : r.attempts <= retryConfig.maxRetries + 1
    /\ (Failed /\ shouldRetry(enhanceError(completed.last, completed.retryCount)))
       => /\ completed.attempts = retryConfig.maxRetries + 1
          /\ completed.failed = retryConfig.maxRetries + 1
          /\ completed.error.status = StatusOf(completed.last)

C5_Witness ==
    /\ Failed
    /\ retryConfig.shouldRetry = DefaultPolicy
    /\ retryConfig.maxRetries = MaxMaxRetries
    /\ completed.attempts = MaxMaxRetries + 1
    /\ completed.last.status = 500
    /\ completed.error.status = 500

\* C6: under the default policy no call waits in a backoff after an attempt
\* that failed with status 400: the call is rejected by that attempt with an
\* error of status 400, so a call whose first attempt fails with 400 has
\* invoked the operation once and waited never, whatever maxRetries is.
C6_NoRetryOn400 ==
    retryConfig.shouldRetry = DefaultPolicy
    => /\ \A r \in Calls : r.pc = "sleep" => StatusOf(r.last) # 400
       /\ (completed.outcome = "fail" /\ StatusOf(completed.last) = 400)
          => /\ completed.pc = "rejected"
             /\ completed.error.status = 400
             /\ completed.attempts = completed.failed
             /\ completed.sleeps = completed.failed - 1
             /\ (completed.failed = 1 => completed.attempts = 1 /\ completed.sleeps = 0)

C6_Witness ==
    /\ Failed
    /\ retryConfig.shouldRetry = DefaultPolicy
    /\ retryConfig.maxRetries = MaxMaxRetries
    /\ completed.error.status = 400
    /\ completed.attempts = 1
    /\ completed.sleeps = 0

\* C7: a call that resolves after k failed attempts has invoked the operation
\* k + 1 times, has waited k times, and resolves with the result of attempt
\* k + 1; attempts and waits alternate: a call awaiting its operation has
\* waited once less than it has invoked it, a call in a wait as often.
C7_SuccessAfterRetries ==
    /\ \A r \in Calls :
          /\ r.pc = "op" => r.sleeps = r.attempts - 1 /\ r.failed = r.attempts - 1
          /\ r.pc = "sleep" => r.sleeps = r.attempts /\ r.failed = r.attempts
    /\ Resolved
       => /\ completed.failed <= retryConfig.maxRetries
          /\ completed.attempts = completed.failed + 1
          /\ completed.sleeps = completed.failed
          /\ completed.result = completed.failed + 1

C7_Witness ==
    /\ Resolved
    /\ completed.failed = 2
    /\ completed.attempts = 3
    /\ completed.sleeps = 2
    /\ completed.result = 3

\* C8: with a supplied shouldRetry a failed attempt is followed by a retry
\* exactly if retryCount < maxRetries and shouldRetry accepts the enhanced
\* error (here: its status); the classifier's retryable flag plays no part.
C8_CustomPredicateDecides ==
    retryConfig.shouldRetry.kind = "custom"
    => /\ \A r \in Calls :
             r.pc = "sleep"
             => /\ r.retryCount < retryConfig.maxRetries
                /\ StatusOf(r.last) \in retryConfig.shouldRetry.accepts
       /\ Failed
          => ~(/\ completed.retryCount < retryConfig.maxRetries
               /\ StatusOf(completed.last) \in retryConfig.shouldRetry.accepts)

C8_Witness ==
    /\ retryConfig.shouldRetry = CustomPolicy({400})
    /\ retryConfig.maxRetries >= 1
    /\ Failed
    /\ completed.error.status = 500
    /\ completed.error.retryable
    /\ completed.attempts = 1
    /\ \E r \in Calls : r.pc = "sleep" /\ r.last.status = 400

\* C9: a call ends either resolved with the result of a successful attempt or
\* rejected with one error that has message, status, code and retryable; a
\* call whose latest attempt failed is never resolved; the error is the
\* enhanced error of the latest attempt's failure or the circuit-open error;
\* and a call leaves the calls in flight only by ending in one of the two.
C9_OneOutcomePerCall ==
    /\ [](/\ completed.pc \in {"none", "resolved", "rejected"}
          /\ completed.outcome = "fail" => completed.pc = "rejected"
          /\ Resolved
             => /\ completed.outcome = "ok"
                /\ completed.result = completed.attempts
                /\ completed.result >= 1
                /\ completed.error = NoError
          /\ completed.pc = "rejected"
             => /\ completed.result = 0
                /\ completed.error # NoError
                /\ completed.error.message # NoStr
                /\ completed.error.status # NoNum
                /\ completed.error.code # NoStr
                /\ completed.error.retryable \in BOOLEAN
          /\ Failed
             => /\ completed.outcome = "fail"
                /\ completed.error = enhanceError(completed.last, completed.failed - 1)
                /\ completed.error.status = StatusOf(completed.last)
          /\ ShortCircuited
             => /\ completed.attempts = 0
                /\ completed.error.code = CIRCUIT_OPEN
                /\ completed.error.status = 503
                /\ completed.error.message = CircuitOpenMessage)
    /\ [][(BagCardinality(inflight') < BagCardinality(inflight))
          => (/\ BagCardinality(inflight') = BagCardinality(inflight) - 1
              /\ completed'.pc \in {"resolved", "rejected"}
              /\ ~completed'.short)]_vars
    /\ [][(Arrives /\ ~Invokes) => (inflight' = inflight /\ completed'.short)]_vars
    /\ [][(completed' # NoCall /\ ~completed'.short)
          => BagCardinality(inflight') = BagCardinality(inflight) - 1]_vars

C9_Witness ==
    /\ Failed
    /\ completed.failed = 2
    /\ completed.last.status = NoNum
    /\ completed.error.code = NETWORK_ERROR
    /\ completed.error.status = 500
    /\ completed.error.retryCount = 1

\* C10: when every attempt and every backoff wait completes, every call
\* completes: the calls made being finitely many, from some point on none is
\* in flight. No call invokes the operation more than maxRetries + 1 times,
\* and none waits for a retry after a failure the retry predicate rejects.
C10_EveryCallCompletes ==
    /\ <>[](inflight = EmptyBag)
    /\ [](\A r \in Calls \cup {completed} : r.attempts <= retryConfig.maxRetries + 1)
    /\ [](\A r \in Calls :
             r.pc = "sleep" => shouldRetry(enhanceError(r.last, r.retryCount)))

C10_Witness ==
    /\ Failed
    /\ retryConfig.shouldRetry = AcceptAll
    /\ retryConfig.maxRetries = MaxMaxRetries
    /\ completed.attempts = MaxMaxRetries + 1
    /\ completed.last.status = 400
    /\ inflight = EmptyBag

\* C11: with enableRetry = false every request invokes the operation as it
\* arrives, whatever the breaker holds, and invokes it once; a failure is
\* thrown as the enhanced error of that failure; and no step changes the
\* circuit breaker.
C11_DirectRequest ==
    [][~enableRetry =>
         /\ cb' = cb
         /\ Arrives => Invokes
         /\ completed'.pc # "none" =>
                /\ completed'.attempts = 1
                /\ completed'.sleeps = 0
                /\ ~completed'.short
         /\ completed'.pc = "rejected" =>
                /\ completed'.error = enhanceError(completed'.last, NoNum)
                /\ completed'.error.status = enhancedStatus(completed'.last)]_vars

\* A request without retry has failed with the axios 500 error, under a
\* threshold of one failure, and the breaker has counted nothing.
C11_Witness ==
    /\ ~enableRetry
    /\ config.failureThreshold = 1
    /\ completed.pc = "rejected"
    /\ completed.last.isAxiosError
    /\ completed.error.status = 500
    /\ completed.error.code = INTERNAL_SERVER_ERROR
    /\ cb.state = "CLOSED"
    /\ cb.failures = 0

\* C12: a call thrown back by the open breaker has made no attempt and no
\* backoff wait, carries code CIRCUIT_OPEN, status 503 and retryable false,
\* and never enters the retry loop: no call in flight is a short-circuited
\* one, under every retry policy.
C12_ShortCircuitNotRetried ==
    /\ \A r \in Calls : ~r.short
    /\ completed.short =>
          /\ completed.pc = "rejected"
          /\ completed.attempts = 0
          /\ completed.sleeps = 0
          /\ completed.failed = 0
          /\ completed.error.code = CIRCUIT_OPEN
          /\ completed.error.status = 503
          /\ completed.error.retryable = FALSE

\* A call has been short-circuited under a predicate that accepts every error
\* and a retry budget that is not exhausted.
C12_Witness ==
    /\ ShortCircuited
    /\ retryConfig.shouldRetry = AcceptAll
    /\ retryConfig.maxRetries > 0
    /\ cb.state = "OPEN"
    /\ now < cb.nextAttemptTime

\* C13: a thrown value that carries one HTTP status s, in any shape, and no
\* transport code, circuit-open marker or "Network Error" message, is enhanced
\* to status s and to the code the status table gives for s.
C13_StatusAndCodeOfCarriedStatus ==
    Classified =>
        LET raw == completed.last
            M(s) == CASE s = 400 -> BAD_REQUEST
                      [] s = 401 -> UNAUTHORIZED
                      [] s = 403 -> FORBIDDEN
                      [] s = 404 -> NOT_FOUND
                      [] s = 405 -> METHOD_NOT_ALLOWED
                      [] s = 409 -> CONFLICT
                      [] s = 422 -> UNPROCESSABLE_ENTITY
                      [] s = 429 -> TOO_MANY_REQUESTS
                      [] s = 500 -> INTERNAL_SERVER_ERROR
                      [] s = 502 -> BAD_GATEWAY
                      [] s = 503 -> SERVICE_UNAVAILABLE
                      [] s = 504 -> GATEWAY_TIMEOUT
                      [] OTHER -> IF s >= 500 THEN INTERNAL_SERVER_ERROR ELSE BAD_REQUEST
        IN  \A s \in Statuses :
                (/\ CarriedStatuses(raw) = {s}
                 /\ raw.code = NoStr
                 /\ raw.message # "Network Error")
                => /\ completed.error.status = s
                   /\ completed.error.code = M(s)

\* C14: the retryable flag of an enhanced error is false when its code is
\* CIRCUIT_OPEN; otherwise, for a 4xx status it is true exactly for 429 and
\* 408, and it is true for every 5xx status and for a thrown value that
\* carries no status.
C14_RetryableFlag ==
    Classified =>
        LET e == completed.error
        IN  /\ e.code = CIRCUIT_OPEN => ~e.retryable
            /\ (e.code # CIRCUIT_OPEN /\ e.status >= 400 /\ e.status < 500)
                  => (e.retryable <=> e.status \in {429, 408})
            /\ (e.code # CIRCUIT_OPEN /\ e.status >= 500) => e.retryable
            /\ (e.code # CIRCUIT_OPEN /\ CarriedStatuses(completed.last) = {})
                  => e.retryable

\* C15: retryable is a function of the enhanced status and code: an enhanced
\* error has the retryable flag of every enhanced plain { status, message }
\* failure with the same status and code.
C15_RetryableFromStatusAndCode ==
    Classified =>
        \A s \in Statuses :
            LET other == enhanceError(ApiFailure(s, "Request failed"), NoNum)
            IN  (other.status = completed.error.status /\ other.code = completed.error.code)
                => other.retryable = completed.error.retryable

\* C16 as stated: a thrown value with transport code ECONNABORTED is enhanced
\* to code TIMEOUT and status 408, whatever status it carries.
C16_TimeoutIs408 ==
    (Classified /\ completed.last.code = "ECONNABORTED")
    => /\ completed.error.code = TIMEOUT
       /\ completed.error.status = 408

\* C16 amended: a thrown value with transport code ECONNABORTED is enhanced to
\* code TIMEOUT, and its status is not rewritten: it is a status the value
\* carries (its own status when it is a plain { status, message } object) and
\* 500 when it carries none, so it is 408 only if the value carries 408.
C16_TimeoutKeepsStatus ==
    (Classified /\ completed.last.code = "ECONNABORTED")
    => LET raw == completed.last
           e == completed.error
       IN  /\ e.code = TIMEOUT
           /\ e.status \in CarriedStatuses(raw) \cup {500}
           /\ CarriedStatuses(raw) = {} => e.status = 500
           /\ (~raw.isAxiosError /\ raw.status # NoNum /\ raw.message # NoStr)
                 => e.status = raw.status
           /\ e.status = 408 => 408 \in CarriedStatuses(raw)

\* The timeout of the tests, { code: 'ECONNABORTED', message }, has been
\* classified: code TIMEOUT, status 500, retryable.
C16_Witness ==
    /\ Classified
    /\ completed.last = RawFailure(FALSE, NoNum, "Request failed", "ECONNABORTED",
                                   FALSE, NoNum, NoStr)
    /\ completed.error.code = TIMEOUT
    /\ completed.error.status = 500
    /\ completed.error.retryable

\* C17 as stated: with 0 < baseDelay <= maxDelay, the delay computed for
\* retryCount n is at least 0.5 * baseDelay * 2^n, at most maxDelay, and
\* positive.
C17_DelayAtLeastHalfExponential ==
    (completed.pc = "sleep" /\ retryConfig.baseDelay <= retryConfig.maxDelay)
    => /\ retryConfig.baseDelay * 2 ^ completed.retryCount * JitterSteps <= completed.delay
       /\ completed.delay <= retryConfig.maxDelay * PerMs
       /\ completed.delay > 0

\* C17 amended: with 0 < baseDelay <= maxDelay, the delay computed for
\* retryCount n is at least the smaller of 0.5 * baseDelay * 2^n and maxDelay,
\* at most maxDelay, and positive.
C17_DelayWithinCeiling ==
    (completed.pc = "sleep" /\ retryConfig.baseDelay <= retryConfig.maxDelay)
    => /\ Min(retryConfig.baseDelay * 2 ^ completed.retryCount * JitterSteps,
              retryConfig.maxDelay * PerMs) <= completed.delay
       /\ completed.delay <= retryConfig.maxDelay * PerMs
       /\ completed.delay > 0

\* A delay has been computed where half the exponential delay exceeds
\* maxDelay: the delay is maxDelay.
C17_Witness ==
    /\ completed.pc = "sleep"
    /\ retryConfig.baseDelay <= retryConfig.maxDelay
    /\ retryConfig.baseDelay * 2 ^ completed.retryCount * JitterSteps
          > retryConfig.maxDelay * PerMs
    /\ completed.delay = retryConfig.maxDelay * PerMs

\* C18: the validation map of a classified failure gives every key the list of
\* its values as strings (a scalar v as <<String(v)>>, a list element by
\* element); a key whose list is empty (an empty list, null, absent) is not in
\* the output; and the output has no map when no key is left.
C18_ValidationMapNormalized ==
    Classified =>
        LET raw == completed.last
            map == IF raw.errors.present THEN raw.errors ELSE raw.dataErrors
            expected == [k \in Keys |->
                           LET value == map.fields[k] IN
                           IF value.kind = "list"
                           THEN [i \in 1..Len(value.items) |-> String(value.items[i])]
                           ELSE IF value.kind \in {"string", "number"}
                           THEN <<String(value)>>
                           ELSE <<>>]
            out == completed.error.errors
        IN  /\ \A k \in Keys :
                   IF expected[k] # <<>>
                   THEN out.defined /\ out.fields[k].kept /\ out.fields[k].list = expected[k]
                   ELSE ~out.fields[k].kept
            /\ out.defined <=> \E k \in Keys : expected[k] # <<>>

\* C19: every call counts its own attempts, whatever else is in flight: it has
\* invoked the operation retryCount + 1 times, at most maxRetries + 1 times,
\* its failed attempts are those before the running one (and the one that
\* sent it to a backoff wait or ended it), and the retryCount stamped on the
\* error it throws is the number of its own failed attempts before the last.
C19_OwnAttemptCounter ==
    \A r \in Calls \cup {completed} :
        (r.pc \in {"op", "sleep", "resolved", "rejected"} /\ ~r.short) =>
            /\ r.attempts = r.retryCount + 1
            /\ r.attempts <= retryConfig.maxRetries + 1
            /\ r.sleeps = IF r.pc = "sleep" THEN r.retryCount + 1 ELSE r.retryCount
            /\ r.failed = IF r.pc \in {"sleep", "rejected"}
                          THEN r.retryCount + 1
                          ELSE r.retryCount
            /\ r.pc = "rejected" => r.error.retryCount = r.failed - 1

\* A call has exhausted the largest budget and thrown an error stamped with
\* it while another call in flight is at its first attempt.
C19_Witness ==
    /\ Failed
    /\ retryConfig.maxRetries = MaxMaxRetries
    /\ completed.attempts = MaxMaxRetries + 1
    /\ completed.error.retryCount = MaxMaxRetries
    /\ \E r \in Calls : r.attempts = 1 /\ r.failed = 0

\* C20: no update of the breaker is lost: as long as no call has ended in
\* success, the failure counter is the number of calls that have ended in
\* failure, in whatever order they ended, and (no call having been let
\* through since an opening) the breaker is OPEN iff that number has
\* reached failureThreshold.
C20_NoLostUpdate ==
    streak # NoNum =>
        /\ cb.failures = streak
        /\ cb.state # "HALF_OPEN" =>
              (cb.state = "OPEN" <=> streak >= config.failureThreshold)

\* Two calls have ended in failure, the second while another call was in
\* flight in its backoff wait: the counter is 2 and the breaker has opened at
\* the threshold of 2.
C20_Witness ==
    /\ Failed
    /\ config.failureThreshold = 2
    /\ streak = 2
    /\ cb.failures = 2
    /\ cb.state = "OPEN"
    /\ \E r \in Calls : r.pc = "sleep"

\* C21: during one HALF_OPEN phase at most 3 calls are let through. In the
\* first HALF_OPEN phase after an opening with nothing in flight, the calls
\* let through so far are those that have succeeded in the phase and those in
\* flight.
C21_AtMostThreeTrialCalls ==
    (cb.state = "HALF_OPEN" /\ openedAt = 0)
    => cb.successCount + BagCardinality(inflight) <= 3

\* C22: recovery is live: once the breaker is OPEN with its deadline passed,
\* every attempt succeeds and at least three more calls arrive, the breaker
\* eventually is CLOSED with failure counter 0.
C22_Recovers ==
    (cb.state = "OPEN" /\ now >= cb.nextAttemptTime /\ started + 3 <= MaxCalls)
    ~> (cb.state = "CLOSED" /\ cb.failures = 0)

\* The breaker that opened at instant 0 has closed again after three
\* successful trial calls.
C22_Witness ==
    /\ cb.state = "CLOSED"
    /\ cb.failures = 0
    /\ cb.successCount = 3
    /\ openedAt = 0
    /\ Resolved

C24_ClosedCounting ==
    [][cb.state = "CLOSED" =>
         /\ Resolved' =>
               /\ cb'.failures = Max(0, cb.failures - 1)
               /\ cb'.state = "CLOSED"
         /\ Failed' =>
               /\ cb'.failures = cb.failures + 1
               /\ cb'.state = IF cb.failures + 1 >= config.failureThreshold
                              THEN "OPEN" ELSE "CLOSED"
               /\ cb'.state = "OPEN" => cb'.nextAttemptTime = now + config.resetTimeout
               /\ cb'.state = "CLOSED" => cb'.nextAttemptTime = cb.nextAttemptTime]_vars

\* A call has failed with the non-retryable status 400 in CLOSED at counter 1
\* under a threshold of 2: the counter is 2 and the breaker is OPEN until
\* now + resetTimeout.
C24_Witness ==
    /\ Failed
    /\ completed.last.status = 400
    /\ ~completed.error.retryable
    /\ config.failureThreshold = 2
    /\ cb.failures = 2
    /\ cb.state = "OPEN"
    /\ openedAt = now
    /\ cb.nextAttemptTime = now + config.resetTimeout

\* C25: a call that is let through gives the breaker one outcome, when it
\* ends: a step that ends no call (a failed attempt that is retried, a timer,
\* an arrival, the clock) leaves the failure counter and the time of the last
\* failure as they are; a call that ends in failure, after however many
\* failed attempts, adds exactly 1 to the counter; a call that ends in
\* success, after however many failed attempts, adds nothing to it and
\* counts as one success.
C25_OneBreakerOutcomePerCall ==
    [][/\ completed'.pc = "none" =>
             /\ cb'.failures = cb.failures
             /\ cb'.lastFailureTime = cb.lastFailureTime
             /\ cb'.nextAttemptTime = cb.nextAttemptTime
       /\ Failed' =>
             /\ completed'.failed = completed'.attempts
             /\ cb'.failures = cb.failures + 1
       /\ Resolved' =>
             /\ completed'.failed = completed'.attempts - 1
             /\ cb'.failures <= cb.failures
             /\ cb'.lastFailureTime = cb.lastFailureTime
             /\ cb.state = "HALF_OPEN" => cb'.successCount = cb.successCount + 1]_vars

\* The first call to end has failed after maxRetries + 1 failed attempts,
\* with the largest budget: the failure counter is 1. (The threshold is 2, so
\* the breaker is still CLOSED.)
C25_Witness ==
    /\ Failed
    /\ retryConfig.maxRetries = MaxMaxRetries
    /\ completed.failed = MaxMaxRetries + 1
    /\ streak = 1
    /\ cb.failures = 1
    /\ config.failureThreshold = 2
    /\ cb.state = "CLOSED"

\* C26: in HALF_OPEN a call that ends in failure is counted as in CLOSED: the
\* failure counter grows by 1, and the breaker is OPEN, with the deadline at
\* now + resetTimeout, iff the new count is >= failureThreshold; otherwise it
\* stays HALF_OPEN.
C26_HalfOpenFailure ==
    [][(cb.state = "HALF_OPEN" /\ Failed') =>
         /\ cb'.failures = cb.failures + 1
         /\ cb'.state = IF cb.failures + 1 >= config.failureThreshold
                        THEN "OPEN" ELSE "HALF_OPEN"
         /\ cb'.state = "OPEN" => cb'.nextAttemptTime = now + config.resetTimeout]_vars

\* No call has succeeded since the opening at instant 0, and a trial call let
\* through later has just failed: the breaker has reopened at this instant
\* with one failure more.
C26_Witness ==
    /\ Failed
    /\ streak = config.failureThreshold + 1
    /\ cb.failures = config.failureThreshold + 1
    /\ cb.state = "OPEN"
    /\ now > 0
    /\ openedAt = now
    /\ cb.nextAttemptTime = now + config.resetTimeout

\* C27: under the default policy a failed attempt with budget left is
\* retried iff the enhanced error of the attempt has retryable = true: a call
\* in its backoff wait got there by a failure whose enhanced error is
\* retryable, and a call that failed with budget left threw an error that is
\* not retryable.
C27_RetryIffRetryable ==
    /\ \A r \in Calls :
          r.pc = "sleep" => enhanceError(r.last, r.retryCount).retryable
    /\ (Failed /\ completed.retryCount < retryConfig.maxRetries)
          => ~completed.error.retryable

\* C28: the code of an enhanced error is that of the first rule that matches
\* the thrown value: transport code ECONNABORTED gives TIMEOUT, ECONNREFUSED
\* gives CONNECTION_REFUSED, the circuit-open marker gives CIRCUIT_OPEN, no
\* response with the message "Network Error" gives NETWORK_ERROR, and only a
\* value that matches none of them gets the code of its enhanced status from
\* the status table.
C28_CodePriority ==
    completed.pc = "rejected" =>
        LET raw == completed.last
            e == completed.error
            network == ~raw.hasResponse /\ raw.message = "Network Error"
            table == [s \in Statuses |->
                        CASE s = 400 -> BAD_REQUEST
                          [] s = 401 -> UNAUTHORIZED
                          [] s = 403 -> FORBIDDEN
                          [] s = 404 -> NOT_FOUND
                          [] s = 405 -> METHOD_NOT_ALLOWED
                          [] s = 409 -> CONFLICT
                          [] s = 422 -> UNPROCESSABLE_ENTITY
                          [] s = 429 -> TOO_MANY_REQUESTS
                          [] s = 502 -> BAD_GATEWAY
                          [] s = 503 -> SERVICE_UNAVAILABLE
                          [] s = 504 -> GATEWAY_TIMEOUT
                          [] OTHER -> IF s >= 500 THEN INTERNAL_SERVER_ERROR
                                      ELSE BAD_REQUEST]
        IN  /\ raw.code = "ECONNABORTED" => e.code = TIMEOUT
            /\ raw.code = "ECONNREFUSED" => e.code = CONNECTION_REFUSED
            /\ raw.code = CIRCUIT_OPEN => e.code = CIRCUIT_OPEN
            /\ (raw.code = NoStr /\ network) => e.code = NETWORK_ERROR
            /\ (raw.code = NoStr /\ ~network) => e.code = table[e.status]

\* A thrown value that matches three rules - transport code ECONNREFUSED, no
\* response with the message "Network Error", status 404 - has been given the
\* code of the first.
C28_Witness ==
    /\ completed.pc = "rejected"
    /\ completed.last = RawFailure(FALSE, 404, "Network Error", "ECONNREFUSED",
                                   FALSE, NoNum, NoStr)
    /\ completed.error.status = 404
    /\ completed.error.code = CONNECTION_REFUSED

\* C29: the error a call throws carries the number of retries performed
\* before the attempt that produced it, which is the number of backoff waits
\* of the call: 0 when the first failure is not retried, and maxRetries when
\* the failure would have been retried had the budget not been used up.
C29_RetryCountStamp ==
    Failed =>
        /\ completed.error.retryCount = completed.sleeps
        /\ completed.error.retryCount <= retryConfig.maxRetries
        /\ completed.attempts = 1 => completed.error.retryCount = 0
        /\ shouldRetry(completed.error) => completed.error.retryCount = retryConfig.maxRetries

\* A call has used up the largest budget: the error it throws is stamped
\* with maxRetries.
C29_Witness ==
    /\ Failed
    /\ retryConfig.maxRetries = MaxMaxRetries
    /\ shouldRetry(completed.error)
    /\ completed.sleeps = MaxMaxRetries
    /\ completed.error.retryCount = MaxMaxRetries

\* C30: the phase and the failure counter agree in every state: CLOSED goes
\* with a counter below failureThreshold, OPEN and HALF_OPEN go with a counter
\* at or above it.
C30_PhaseAgreesWithCounter ==
    /\ cb.state = "CLOSED" => cb.failures < config.failureThreshold
    /\ cb.state \in {"OPEN", "HALF_OPEN"} => cb.failures >= config.failureThreshold
    /\ cb.state \in {"CLOSED", "OPEN", "HALF_OPEN"}

\* Two calls in flight together have failed under a threshold of 1, the
\* second while the breaker was OPEN; the breaker is now HALF_OPEN, with a
\* trial call in flight and the counter at 2.
C30_Witness ==
    /\ cb.state = "HALF_OPEN"
    /\ config.failureThreshold = 1
    /\ cb.failures = 2
    /\ streak = 2
    /\ inflight # EmptyBag

\* C31: the breaker changes phase only from CLOSED to OPEN, from OPEN to
\* HALF_OPEN, from HALF_OPEN to OPEN and from HALF_OPEN to CLOSED, whatever
\* completes in whatever phase.
C31_PhaseChanges ==
    [][cb'.state # cb.state =>
         <<cb.state, cb'.state>> \in
            {<<"CLOSED", "OPEN">>, <<"OPEN", "HALF_OPEN">>,
             <<"HALF_OPEN", "OPEN">>, <<"HALF_OPEN", "CLOSED">>}]_vars

\* A call let through before the opening has succeeded while the breaker is
\* OPEN with its deadline ahead, and the breaker is still OPEN.
C31_Witness ==
    /\ Resolved
    /\ cb.state = "OPEN"
    /\ now < cb.nextAttemptTime
    /\ cb.failures >= config.failureThreshold

\* C32: the step that rejects a call with CIRCUIT_OPEN leaves the breaker as
\* it was: phase, failure counter, success counter, last failure time and
\* reopening deadline, and starts no operation.
C32_ShortCircuitFrame ==
    [][(started' = started + 1 /\ completed'.pc = "rejected" /\ completed'.short)
          => /\ cb' = cb
             /\ inflight' = inflight
             /\ completed'.attempts = 0]_vars

\* A call has been rejected some time after the opening, and the deadline is
\* still the one set at the opening.
C32_Witness ==
    /\ ShortCircuited
    /\ cb.state = "OPEN"
    /\ openedAt # NoNum
    /\ now > openedAt
    /\ cb.nextAttemptTime = openedAt + config.resetTimeout

\* C33: the count of trial successes is always between 0 and 3, and it is
\* below 3 whenever the breaker is HALF_OPEN.
C33_SuccessCountRange ==
    /\ cb.successCount \in 0..3
    /\ cb.state = "HALF_OPEN" => cb.successCount < 3

\* The third trial success has just closed the breaker: the count stands at
\* its maximum.
C33_Witness ==
    /\ Resolved
    /\ openedAt # NoNum
    /\ cb.state = "CLOSED"
    /\ cb.failures = 0
    /\ cb.successCount = 3

\* C34: classifying an already classified failure again gives the same
\* status, the same code and the same retryable flag as the first
\* classification.
C34_ReclassificationStable ==
    [][(completed.pc = "rejected" /\ completed'.pc = "rethrown")
          => /\ completed'.error.status = completed.error.status
             /\ completed'.error.code = completed.error.code
             /\ completed'.error.retryable = completed.error.retryable]_vars

====
